---- MODULE Spec2Model ----
(***************************************************************************)
(* Model of bin/merge_tsv.py: merge_tsv(files, output, join_type) reads    *)
(* every input TSV with polars, checks that each table has a "SampleID"    *)
(* column, folds the tables left to right with DataFrame.join on           *)
(* "SampleID" (dropping "SampleID_right" after every step) and writes the  *)
(* result as TSV.                                                          *)
(*                                                                         *)
(* A file is its text: a header (sequence of column names) and rows of     *)
(* cell texts.  A DataFrame is what polars holds after parsing: columns,   *)
(* one dtype per column, and rows of values.  A value is NULL or a text;   *)
(* a value of an i64 column is written as its canonical decimal numeral.   *)
(***************************************************************************)
EXTENDS Integers, Sequences, FiniteSets, TLC

VARIABLES files, output, join_type, fs, pc, dfs, i, merged_df, exit_code,
          stdout, exception, trace

\* files, output, join_type : the arguments of merge_tsv
\* fs         : the file system, path -> file text
\* pc         : where the call is: entry, read, validate, reduce, write, or
\*              ended as returned, exited (sys.exit) or raised (exception)
\* dfs        : the frames read so far
\* i          : the loop position of the validation loop, then of reduce
\* merged_df  : reduce's accumulator
\* exit_code  : the process status once the call has ended (-1 before)
\* stdout     : what print() wrote
\* exception  : the uncaught exception, "" if none
\* trace      : history of the steps taken: paths read, paths checked, number
\*              of join steps, paths written
vars == <<files, output, join_type, fs, pc, dfs, i, merged_df, exit_code,
          stdout, exception, trace>>

-----------------------------------------------------------------------------
(* Bounds and fixtures                                                     *)

\* longest list of input paths a run is given
MaxFiles == 3

KEY == "SampleID"
SUFFIX == "_right"
NULL == "<null>"

JoinTypes == {"inner", "full", "left", "right"}

\* The file system before the run.  A path outside its domain does not exist.
DiskFiles ==
    [p \in {"A.tsv", "B.tsv", "C.tsv", "D.tsv", "E.tsv", "F.tsv"} |->
       CASE p = "A.tsv" -> [header |-> <<"SampleID", "X">>,
                            rows |-> << <<"1", "10">>, <<"2", "20">> >>]
         [] p = "B.tsv" -> [header |-> <<"SampleID", "Y">>,
                            rows |-> << <<"2", "200">>, <<"3", "300">> >>]
         [] p = "C.tsv" -> [header |-> <<"SampleID", "X">>,
                            rows |-> << <<"3", "7">>, <<"01", "8">>,
                                        <<"1", "">>, <<"", "9">> >>]
         [] p = "D.tsv" -> [header |-> <<"sampleid", "Z">>,
                            rows |-> << <<"1", "5">> >>]
         [] p = "E.tsv" -> [header |-> <<"SampleID", "V">>,
                            rows |-> << <<"a", "1">>, <<"2", "x">> >>]
         [] p = "F.tsv" -> [header |-> <<"ID", "Y">>,
                            rows |-> << <<"2", "5">> >>]]

\* paths a caller may pass as input; "missing.tsv" is not on disk
InputPaths == DOMAIN DiskFiles \cup {"missing.tsv"}

\* paths a caller may pass as output; the directory "nodir" does not exist
OutputPaths == {"out.tsv", "A.tsv", "nodir/out.tsv"}
Unwritable == {"nodir/out.tsv"}

-----------------------------------------------------------------------------
(* Sequence helpers                                                        *)

Iota(n) == [j \in 1..n |-> j]

RECURSIVE Flatten(_)
Flatten(ss) == IF ss = <<>> THEN <<>> ELSE Head(ss) \o Flatten(Tail(ss))

Range(s) == {s[j] : j \in 1..Len(s)}

SeqsUpTo(S, n) == UNION {[1..m -> S] : m \in 0..n}

-----------------------------------------------------------------------------
(* pl.read_csv(f, separator="\t") and DataFrame.write_csv                  *)

\* decimal numerals polars' schema inference reads as Int64, with the
\* rendering of the parsed number
parse_i64 ==
    [t \in {"1", "2", "3", "5", "7", "8", "9", "10", "20", "200", "300",
            "01"} |-> IF t = "01" THEN "1" ELSE t]

\* dtype inferred for column j of a file: Int64 when it has a value and every
\* value is an integer numeral, String otherwise (empty fields are nulls)
infer_dtype(file, j) ==
    LET cells == {file.rows[r][j] : r \in 1..Len(file.rows)} \ {""}
    IN  IF cells # {} /\ cells \subseteq DOMAIN parse_i64 THEN "i64" ELSE "str"

parse_cell(text, dtype) ==
    IF text = "" THEN NULL
    ELSE IF dtype = "i64" THEN parse_i64[text] ELSE text

read_csv(file) ==
    LET n == Len(file.header)
        dt == [j \in 1..n |-> infer_dtype(file, j)]
    IN  [columns |-> file.header,
         dtypes  |-> dt,
         rows    |-> [r \in 1..Len(file.rows) |->
                        [j \in 1..n |-> parse_cell(file.rows[r][j], dt[j])]]]

\* format_cell with nulls written as "NA"
format_cell_na(v) == IF v = NULL THEN "NA" ELSE v

format_cell(v) == IF v = NULL THEN "" ELSE v

write_csv(df) ==
    [header |-> df.columns,
     rows   |-> [r \in 1..Len(df.rows) |->
                   [j \in 1..Len(df.columns) |-> format_cell(df.rows[r][j])]]]

EmptyDF == [columns |-> <<>>, dtypes |-> <<>>, rows |-> <<>>]

-----------------------------------------------------------------------------
(* DataFrame.join(right, on="SampleID", how=join_type)                     *)

HasColumn(df, name) == name \in Range(df.columns)

ColIndex(df, name) == CHOOSE j \in 1..Len(df.columns) : df.columns[j] = name

\* the columns of one side as output column descriptors: the columns named in
\* `skip` are left out and those named in `clash` get the suffix
SideCols(df, side, skip, clash) ==
    LET js == SelectSeq(Iota(Len(df.columns)),
                        LAMBDA j : df.columns[j] \notin skip)
    IN  [c \in 1..Len(js) |->
            [name  |-> IF df.columns[js[c]] \in clash
                       THEN df.columns[js[c]] \o SUFFIX
                       ELSE df.columns[js[c]],
             dtype |-> df.dtypes[js[c]],
             side  |-> side,
             idx   |-> js[c]]]

\* Output schema.  inner and left coalesce the key into the left column; right
\* coalesces it into the right column (the left key column is removed); full
\* keeps both key columns.  A right column whose name the left table has gets
\* the suffix, unless it is a key column coalesced away on the left.
join_schema(left, right, how) ==
    LET leftNames == Range(left.columns)
    IN  IF how = "right"
        THEN SideCols(left, "l", {KEY}, {})
             \o SideCols(right, "r", {}, leftNames \ {KEY})
        ELSE IF how = "full"
        THEN SideCols(left, "l", {}, {}) \o SideCols(right, "r", {}, leftNames)
        ELSE SideCols(left, "l", {}, {}) \o SideCols(right, "r", {KEY}, leftNames)

\* join keys are equal; a null key matches nothing (nulls_equal=False)
KeysMatch(a, b) == a # NULL /\ a = b

\* row indices of `other` whose key matches key value k, in row order
Matches(k, other) ==
    LET ok == ColIndex(other, KEY)
    IN  SelectSeq(Iota(Len(other.rows)),
                  LAMBDA r : KeysMatch(k, other.rows[r][ok]))

\* Pairs <<left row, right row>> (0: no row on that side) produced by probing
\* with the left table, in left row order.
ProbeLeft(left, right, keepUnmatched) ==
    LET lk == ColIndex(left, KEY)
    IN  Flatten([l \in 1..Len(left.rows) |->
          LET m == Matches(left.rows[l][lk], right)
          IN  IF m = <<>>
              THEN IF keepUnmatched THEN << <<l, 0>> >> ELSE <<>>
              ELSE [x \in 1..Len(m) |-> <<l, m[x]>>]])

ProbeRight(left, right, keepUnmatched) ==
    LET rk == ColIndex(right, KEY)
    IN  Flatten([r \in 1..Len(right.rows) |->
          LET m == Matches(right.rows[r][rk], left)
          IN  IF m = <<>>
              THEN IF keepUnmatched THEN << <<0, r>> >> ELSE <<>>
              ELSE [x \in 1..Len(m) |-> <<m[x], r>>]])

UnmatchedLeft(left, right) ==
    LET lk == ColIndex(left, KEY)
        ls == SelectSeq(Iota(Len(left.rows)),
                        LAMBDA l : Matches(left.rows[l][lk], right) = <<>>)
    IN  [x \in 1..Len(ls) |-> <<ls[x], 0>>]

UnmatchedRight(left, right) ==
    LET rk == ColIndex(right, KEY)
        rs == SelectSeq(Iota(Len(right.rows)),
                        LAMBDA r : Matches(right.rows[r][rk], left) = <<>>)
    IN  [x \in 1..Len(rs) |-> <<0, rs[x]>>]

\* join_pairs with an inner join that keeps the unmatched rows of the probe side
join_pairs_inner_keeps_unmatched(left, right, how) ==
    LET probeLeft == Len(left.rows) > Len(right.rows)
    IN  CASE how = "left"  -> ProbeLeft(left, right, TRUE)
          [] how = "right" -> ProbeRight(left, right, TRUE)
          [] how = "inner" -> IF probeLeft THEN ProbeLeft(left, right, TRUE)
                              ELSE ProbeRight(left, right, TRUE)
          [] how = "full"  -> IF probeLeft
                              THEN ProbeLeft(left, right, TRUE)
                                   \o UnmatchedRight(left, right)
                              ELSE ProbeRight(left, right, TRUE)
                                   \o UnmatchedLeft(left, right)

\* join_pairs with the sides of left and right joins exchanged
join_pairs_sides_swapped(left, right, how) ==
    LET probeLeft == Len(left.rows) > Len(right.rows)
    IN  CASE how = "left"  -> ProbeRight(left, right, TRUE)
          [] how = "right" -> ProbeLeft(left, right, TRUE)
          [] how = "inner" -> IF probeLeft THEN ProbeLeft(left, right, FALSE)
                              ELSE ProbeRight(left, right, FALSE)
          [] how = "full"  -> IF probeLeft
                              THEN ProbeLeft(left, right, TRUE)
                                   \o UnmatchedRight(left, right)
                              ELSE ProbeRight(left, right, TRUE)
                                   \o UnmatchedLeft(left, right)

\* join_pairs with a left join that drops the left rows without a match
join_pairs_left_drops_unmatched(left, right, how) ==
    LET probeLeft == Len(left.rows) > Len(right.rows)
    IN  CASE how = "left"  -> ProbeLeft(left, right, FALSE)
          [] how = "right" -> ProbeRight(left, right, TRUE)
          [] how = "inner" -> IF probeLeft THEN ProbeLeft(left, right, FALSE)
                              ELSE ProbeRight(left, right, FALSE)
          [] how = "full"  -> IF probeLeft
                              THEN ProbeLeft(left, right, TRUE)
                                   \o UnmatchedRight(left, right)
                              ELSE ProbeRight(left, right, TRUE)
                                   \o UnmatchedLeft(left, right)

\* Row pairs of the join.  left probes with the left table and right with the
\* right table.  inner and full probe with the left table only when it is
\* strictly longer than the right one (the hash table is built on the shorter
\* table); full appends the unmatched rows of the build side.  polars leaves
\* the row order of inner and full unspecified (maintain_order="none"); this
\* is the order of its in-memory engine.
join_pairs(left, right, how) ==
    LET probeLeft == Len(left.rows) > Len(right.rows)
    IN  CASE how = "left"  -> ProbeLeft(left, right, TRUE)
          [] how = "right" -> ProbeRight(left, right, TRUE)
          [] how = "inner" -> IF probeLeft THEN ProbeLeft(left, right, FALSE)
                              ELSE ProbeRight(left, right, FALSE)
          [] how = "full"  -> IF probeLeft
                              THEN ProbeLeft(left, right, TRUE)
                                   \o UnmatchedRight(left, right)
                              ELSE ProbeRight(left, right, TRUE)
                                   \o UnmatchedLeft(left, right)

join_row(left, right, schema, pair) ==
    [c \in 1..Len(schema) |->
        IF schema[c].side = "l"
        THEN IF pair[1] = 0 THEN NULL ELSE left.rows[pair[1]][schema[c].idx]
        ELSE IF pair[2] = 0 THEN NULL ELSE right.rows[pair[2]][schema[c].idx]]

\* left.join(right, on="SampleID", how=how): the joined frame, or the
\* exception polars raises
join(left, right, how) ==
    LET schema == join_schema(left, right, how)
        names  == [c \in 1..Len(schema) |-> schema[c].name]
        pairs  == join_pairs(left, right, how)
    IN  IF Cardinality(Range(names)) # Len(names)
        THEN [exc |-> "DuplicateError", df |-> EmptyDF]
        ELSE IF left.dtypes[ColIndex(left, KEY)] # right.dtypes[ColIndex(right, KEY)]
        THEN [exc |-> "SchemaError", df |-> EmptyDF]
        ELSE [exc |-> "",
              df  |-> [columns |-> names,
                       dtypes  |-> [c \in 1..Len(schema) |-> schema[c].dtype],
                       rows    |-> [x \in 1..Len(pairs) |->
                                      join_row(left, right, schema, pairs[x])]]]

\* DataFrame.drop(name)
drop(df, name) ==
    LET js == SelectSeq(Iota(Len(df.columns)), LAMBDA j : df.columns[j] # name)
    IN  [columns |-> [c \in 1..Len(js) |-> df.columns[js[c]]],
         dtypes  |-> [c \in 1..Len(js) |-> df.dtypes[js[c]]],
         rows    |-> [r \in 1..Len(df.rows) |->
                        [c \in 1..Len(js) |-> df.rows[r][js[c]]]]]

safe_join(left, right, how) ==
    LET joined == join(left, right, how)
    IN  IF joined.exc # "" THEN joined
        ELSE IF HasColumn(joined.df, KEY \o SUFFIX)
        THEN [exc |-> "", df |-> drop(joined.df, KEY \o SUFFIX)]
        ELSE joined

-----------------------------------------------------------------------------
(* merge_tsv                                                               *)

NoTrace == [reads |-> <<>>, checks |-> <<>>, joins |-> 0, writes |-> <<>>]

Init ==
    /\ files \in SeqsUpTo(InputPaths, MaxFiles)
    /\ output \in OutputPaths
    /\ join_type \in JoinTypes
    /\ fs = DiskFiles
    /\ pc = "entry"
    /\ dfs = <<>>
    /\ i = 1
    /\ merged_df = EmptyDF
    /\ exit_code = -1
    /\ stdout = ""
    /\ exception = ""
    /\ trace = NoTrace

Raise(msg) ==
    /\ pc' = "raised"
    /\ exception' = msg
    /\ exit_code' = 1

\* CheckFiles that reports the empty list and exits with status 0
CheckFiles_exit0 ==
    /\ pc = "entry"
    /\ IF files = <<>>
       THEN /\ stdout' = "Error: No input files provided."
            /\ exit_code' = 0
            /\ pc' = "exited"
       ELSE /\ pc' = "read"
            /\ UNCHANGED <<stdout, exit_code>>
    /\ UNCHANGED <<files, output, join_type, fs, dfs, i, merged_df, exception,
                   trace>>

\* if not files: print(...); sys.exit(1)
CheckFiles ==
    /\ pc = "entry"
    /\ IF files = <<>>
       THEN /\ stdout' = "Error: No input files provided."
            /\ exit_code' = 1
            /\ pc' = "exited"
       ELSE /\ pc' = "read"
            /\ UNCHANGED <<stdout, exit_code>>
    /\ UNCHANGED <<files, output, join_type, fs, dfs, i, merged_df, exception,
                   trace>>

\* one iteration of dfs = [pl.read_csv(f, separator="\t") for f in files]
ReadFile ==
    /\ pc = "read"
    /\ LET f == files[Len(dfs) + 1]
       IN  /\ trace' = [trace EXCEPT !.reads = Append(@, f)]
           /\ IF f \notin DOMAIN fs
              THEN /\ Raise("FileNotFoundError: " \o f)
                   /\ UNCHANGED dfs
              ELSE /\ dfs' = Append(dfs, read_csv(fs[f]))
                   /\ pc' = IF Len(dfs) + 1 = Len(files) THEN "validate" ELSE "read"
                   /\ UNCHANGED <<exception, exit_code>>
    /\ UNCHANGED <<files, output, join_type, fs, i, merged_df, stdout>>

\* CheckColumn whose error message names files[0] instead of files[i]
CheckColumn_names_first ==
    /\ pc = "validate"
    /\ trace' = [trace EXCEPT !.checks = Append(@, files[i])]
    /\ IF ~HasColumn(dfs[i], KEY)
       THEN /\ Raise("ValueError: 'SampleID' column missing in file: " \o files[1])
            /\ UNCHANGED <<i, merged_df>>
       ELSE /\ IF i = Len(dfs)
               THEN /\ merged_df' = dfs[1]
                    /\ i' = 2
                    /\ pc' = IF Len(dfs) = 1 THEN "write" ELSE "reduce"
               ELSE /\ i' = i + 1
                    /\ pc' = "validate"
                    /\ UNCHANGED merged_df
            /\ UNCHANGED <<exception, exit_code>>
    /\ UNCHANGED <<files, output, join_type, fs, dfs, stdout>>

\* one iteration of the loop that checks "SampleID" in df.columns; after the
\* last one reduce() takes dfs[0] as its first accumulator
CheckColumn ==
    /\ pc = "validate"
    /\ trace' = [trace EXCEPT !.checks = Append(@, files[i])]
    /\ IF ~HasColumn(dfs[i], KEY)
       THEN /\ Raise("ValueError: 'SampleID' column missing in file: " \o files[i])
            /\ UNCHANGED <<i, merged_df>>
       ELSE /\ IF i = Len(dfs)
               THEN /\ merged_df' = dfs[1]
                    /\ i' = 2
                    /\ pc' = IF Len(dfs) = 1 THEN "write" ELSE "reduce"
               ELSE /\ i' = i + 1
                    /\ pc' = "validate"
                    /\ UNCHANGED merged_df
            /\ UNCHANGED <<exception, exit_code>>
    /\ UNCHANGED <<files, output, join_type, fs, dfs, stdout>>

\* JoinStep that records a failed join and goes on to write what it has
JoinStep_partial ==
    /\ pc = "reduce"
    /\ trace' = [trace EXCEPT !.joins = @ + 1]
    /\ LET joined == safe_join(merged_df, dfs[i], join_type)
       IN  IF joined.exc # ""
           THEN /\ exception' = joined.exc
                /\ pc' = "write"
                /\ UNCHANGED <<i, merged_df, exit_code>>
           ELSE /\ merged_df' = joined.df
                /\ i' = i + 1
                /\ pc' = IF i = Len(dfs) THEN "write" ELSE "reduce"
                /\ UNCHANGED <<exception, exit_code>>
    /\ UNCHANGED <<files, output, join_type, fs, dfs, stdout>>

\* one step of merged_df = reduce(safe_join, dfs)
JoinStep ==
    /\ pc = "reduce"
    /\ trace' = [trace EXCEPT !.joins = @ + 1]
    /\ LET joined == safe_join(merged_df, dfs[i], join_type)
       IN  IF joined.exc # ""
           THEN /\ Raise(joined.exc)
                /\ UNCHANGED <<i, merged_df>>
           ELSE /\ merged_df' = joined.df
                /\ i' = i + 1
                /\ pc' = IF i = Len(dfs) THEN "write" ELSE "reduce"
                /\ UNCHANGED <<exception, exit_code>>
    /\ UNCHANGED <<files, output, join_type, fs, dfs, stdout>>

\* WriteOutput that also saves the merged table over the first input file
WriteOutput_touches_input ==
    /\ pc = "write"
    /\ IF output \in Unwritable
       THEN /\ Raise("FileNotFoundError: " \o output)
            /\ UNCHANGED <<fs, trace>>
       ELSE /\ fs' = [p \in DOMAIN fs \cup {output} |->
                        IF p \in {output, files[1]} THEN write_csv(merged_df)
                        ELSE fs[p]]
            /\ trace' = [trace EXCEPT !.writes = Append(@, output)]
            /\ pc' = "returned"
            /\ exit_code' = 0
            /\ UNCHANGED exception
    /\ UNCHANGED <<files, output, join_type, dfs, i, merged_df, stdout>>

\* merged_df.write_csv(output, separator="\t"), then the function returns
WriteOutput ==
    /\ pc = "write"
    /\ IF output \in Unwritable
       THEN /\ Raise("FileNotFoundError: " \o output)
            /\ UNCHANGED <<fs, trace>>
       ELSE /\ fs' = [p \in DOMAIN fs \cup {output} |->
                        IF p = output THEN write_csv(merged_df) ELSE fs[p]]
            /\ trace' = [trace EXCEPT !.writes = Append(@, output)]
            /\ pc' = "returned"
            /\ exit_code' = 0
            /\ UNCHANGED exception
    /\ UNCHANGED <<files, output, join_type, dfs, i, merged_df, stdout>>

Next == CheckFiles \/ ReadFile \/ CheckColumn \/ JoinStep \/ WriteOutput

Spec == Init /\ [][Next]_vars

-----------------------------------------------------------------------------
(* Vocabulary of the properties                                            *)

Returned == pc = "returned"
Terminated == pc \in {"returned", "raised", "exited"}

\* every input path names a file that is on disk when the run starts
Readable == \A j \in 1..Len(files) : files[j] \in DOMAIN DiskFiles

\* every input file is readable and has a column named exactly SampleID
AllHaveKey ==
    /\ Readable
    /\ \A j \in 1..Len(files) : KEY \in Range(DiskFiles[files[j]].header)

\* positions of the input files that have no column named exactly SampleID
Offending == {j \in 1..Len(files) : KEY \notin Range(DiskFiles[files[j]].header)}

\* the SampleID column of a frame, top to bottom (nulls included)
KeySeq(df) == [r \in 1..Len(df.rows) |-> df.rows[r][ColIndex(df, KEY)]]

\* the SampleID values a frame carries
KeySet(df) == Range(KeySeq(df)) \ {NULL}

SameKeyDtype ==
    \A j \in 1..Len(dfs) :
        dfs[j].dtypes[ColIndex(dfs[j], KEY)] = dfs[1].dtypes[ColIndex(dfs[1], KEY)]

\* the table a reader finds in the output file
OutputTable == read_csv(fs[output])

Count(s, x) == Cardinality({j \in 1..Len(s) : s[j] = x})

\* out repeats every element of base one or more times, in base's order
RECURSIVE Expands(_, _)
Expands(out, base) ==
    IF base = <<>> THEN out = <<>>
    ELSE /\ out # <<>>
         /\ Head(out) = Head(base)
         /\ \/ Expands(Tail(out), Tail(base))
            \/ Expands(Tail(out), base)

-----------------------------------------------------------------------------
(* Properties                                                              *)

\* C1 (as claimed): whenever every input table has a SampleID column (of one
\* dtype) and the output path is writable, the run completes with one write
\* and the output header holds SampleID once, every input column name, and
\* no SampleID_right.
C1_HeaderAlways ==
    (Terminated /\ files # <<>> /\ AllHaveKey /\ SameKeyDtype
        /\ output \notin Unwritable)
    => /\ Returned
       /\ Len(trace.writes) = 1
       /\ Count(fs[output].header, KEY) = 1
       /\ (KEY \o SUFFIX) \notin Range(fs[output].header)
       /\ \A j \in 1..Len(files) :
             Range(DiskFiles[files[j]].header) \subseteq Range(fs[output].header)

\* C2 (as claimed): after a full merge the SampleID values of the output rows
\* are the union of the SampleID values of all input tables.
C2_FullKeysAreUnion ==
    (Returned /\ join_type = "full")
    => KeySet(OutputTable) = UNION {KeySet(dfs[j]) : j \in 1..Len(dfs)}

\* C3: after an inner merge the SampleID values of the output rows are the
\* intersection of the SampleID values of all input tables.
C3_InnerKeysAreIntersection ==
    (Returned /\ join_type = "inner")
    => KeySet(OutputTable) =
         {k \in KeySet(dfs[1]) : \A j \in 1..Len(dfs) : k \in KeySet(dfs[j])}

C3_Witness ==
    /\ Returned /\ join_type = "inner" /\ Len(files) = 3
    /\ KeySet(OutputTable) # {}
    /\ KeySet(OutputTable) # KeySet(dfs[1])
    /\ KeySet(OutputTable) # KeySet(dfs[2])

\* C4: after a left merge the SampleID column of the output is the SampleID
\* column of the first input file in the first file's row order (a row is
\* repeated, in place, once per matching row of a later file), whatever keys
\* the later files hold.
C4_LeftKeepsFirstFile ==
    (Returned /\ join_type = "left")
    => /\ Expands(KeySeq(OutputTable), KeySeq(dfs[1]))
       /\ Range(KeySeq(OutputTable)) = Range(KeySeq(dfs[1]))

C4_Witness ==
    /\ Returned /\ join_type = "left" /\ Len(files) = 3
    /\ KeySet(dfs[2]) \ KeySet(dfs[1]) # {}
    /\ KeySet(dfs[3]) \ KeySet(dfs[1]) # {}
    /\ KeySet(dfs[1]) \ KeySet(dfs[2]) # {}
    /\ Len(OutputTable.rows) > Len(dfs[1].rows)

\* C5: with an empty files list the run goes from entry straight to exit with
\* the usage message and status 1; nothing is read, checked, joined or
\* written.
C5_EmptyFilesExits ==
    files = <<>>
    => /\ pc \in {"entry", "exited"}
       /\ trace = NoTrace
       /\ dfs = <<>>
       /\ fs = DiskFiles
       /\ exception = ""
       /\ pc = "exited" => /\ exit_code = 1
                           /\ stdout = "Error: No input files provided."

C5_Witness == files = <<>> /\ pc = "exited" /\ exit_code = 1

\* C6: when every input file is readable and some table has no column named
\* exactly SampleID, no join step runs, nothing is written, and the run ends
\* in a ValueError whose message names the path of the first such file in
\* input order.
C6_MissingKeyNamesFirstFile ==
    (Readable /\ Offending # {})
    => LET first == CHOOSE j \in Offending : \A k \in Offending : j <= k
       IN  /\ pc \notin {"reduce", "write", "returned"}
           /\ trace.joins = 0
           /\ trace.writes = <<>>
           /\ fs = DiskFiles
           /\ Terminated =>
                /\ pc = "raised"
                /\ exit_code = 1
                /\ Len(trace.checks) = first
                /\ exception = "ValueError: 'SampleID' column missing in file: "
                                  \o files[first]

C6_Witness ==
    /\ Readable /\ Offending = {2, 3} /\ Len(files) = 3
    /\ files[2] # files[3]
    /\ pc = "raised"

\* C7: reads, checks, join steps and the write happen in that order, each
\* input once and in input order, the write at most once; a run in which an
\* error was raised or reported has written nothing.
C7_OrderedAllOrNothing ==
    /\ trace.reads = SubSeq(files, 1, Len(trace.reads))
    /\ trace.checks = SubSeq(files, 1, Len(trace.checks))
    /\ trace.checks # <<>> => Len(trace.reads) = Len(files)
    /\ trace.joins > 0 => Len(trace.checks) = Len(files)
    /\ trace.joins <= Len(files) - 1 \/ files = <<>>
    /\ trace.writes # <<>> => /\ trace.joins = Len(files) - 1
                              /\ Len(trace.checks) = Len(files)
    /\ Len(trace.writes) <= 1
    /\ (exception # "" \/ pc \in {"raised", "exited"})
         => trace.writes = <<>> /\ fs = DiskFiles
    /\ Returned => Len(trace.writes) = 1

C7_Witness ==
    /\ pc = "raised" /\ trace.joins = 2 /\ Len(files) = 3
    /\ trace.writes = <<>> /\ output \notin Unwritable

\* C8 (as claimed): whatever the paths, at most one file is written, the
\* output path, and every input file keeps its content.
C8_InputsNeverChange ==
    /\ Len(trace.writes) <= 1
    /\ Range(trace.writes) \subseteq {output}
    /\ \A j \in 1..Len(files) :
          files[j] \in DOMAIN DiskFiles => fs[files[j]] = DiskFiles[files[j]]

\* C8 (amended): at most one file is written, the output path, and every
\* file at another path keeps its content; an input file at the output path
\* is replaced by the merged table.
C8_OnlyOutputPathChanges ==
    /\ Len(trace.writes) <= 1
    /\ Range(trace.writes) \subseteq {output}
    /\ DOMAIN fs \subseteq DOMAIN DiskFiles \cup {output}
    /\ \A p \in DOMAIN DiskFiles \ {output} : fs[p] = DiskFiles[p]
    /\ Returned => fs[output] = write_csv(merged_df)

C8_Witness ==
    /\ Returned /\ Len(files) = 2
    /\ output \in Range(files)
    /\ fs[output] # DiskFiles[output]
    /\ files[1] # output

\* C9: merging a single file runs no join step and, for every join mode,
\* the output file holds the same table as the input file: same columns,
\* same rows, same values.
C9_SingleFileIsCopied ==
    (Returned /\ Len(files) = 1)
    => /\ trace.joins = 0
       /\ OutputTable = read_csv(DiskFiles[files[1]])

C9_Witness ==
    /\ Returned /\ Len(files) = 1 /\ join_type = "inner"
    /\ files[1] = "C.tsv"
    /\ fs[output] # DiskFiles[files[1]]

\* C10: with join mode left, merging [A, B] keeps A's SampleID values and
\* merging [B, A] keeps B's, so the two orders differ whenever A and B hold
\* different keys.
C10_LeftFoldFollowsInputOrder ==
    (Returned /\ join_type = "left" /\ Len(files) = 2)
    => LET swapped == safe_join(dfs[2], dfs[1], "left")
       IN  /\ KeySet(OutputTable) = KeySet(dfs[1])
           /\ swapped.exc = ""
           /\ KeySet(swapped.df) = KeySet(dfs[2])

C10_Witness ==
    /\ Returned /\ join_type = "left" /\ Len(files) = 2
    /\ KeySet(dfs[1]) # KeySet(dfs[2])
    /\ KeySet(OutputTable) # KeySet(safe_join(dfs[2], dfs[1], "left").df)

====
